---- MODULE Spec2Model ----
(***************************************************************************)
(* QPlanarity (src/main.py): the random planar graph generator             *)
(* RandomGraph2 and the incremental crossing bookkeeping of Scene.         *)
(*                                                                         *)
(* Edges are pairs <<a, b>> of node indices, points are pairs <<x, y>> of  *)
(* integers.  Every rnd.random()/rnd.choice() outcome and every iteration  *)
(* order of a Python set is a nondeterministic choice.                     *)
(***************************************************************************)
EXTENDS Integers, FiniteSets, Sequences, TLC

\* ----- bounds ---------------------------------------------------------------
MaxNodes == 5          \* largest node_limit given to RandomGraph2
MaxOutsideLimit == 1   \* explicit outside_limit arguments are 0..MaxOutsideLimit
MaxDepth == 2          \* cap on the recursion depth counter of addLines/removeLines

VARIABLES
  limit,          \* self.limit (node_limit)
  outside_limit,  \* local outside_limit of __init__
  node_idx,       \* self.node_idx
  edges,          \* self.edges
  outside_edges,  \* self.outside_edges
  ab,             \* local ab of addLines / removeLines
  pivot,          \* local pivot of addLines
  base,           \* local base of addLines
  endpoints,      \* local endpoints of removeLines
  depth,          \* number of nested self.addLines()/self.removeLines() calls
  N,              \* the N of Scene(N) when the graph is made for a Scene, else 0
  nodes,          \* Scene.nodes: node index -> position of the Node item
  lines,          \* Scene.lines: edge -> segment drawn by its QGraphicsLineItem
  collisions,     \* Scene.collisions: edge -> set of edges
  untangled,      \* Scene.untangled
  node2lines,     \* Scene.node2lines: node index -> incident edges
  signal,         \* signals emitted by the last handler that ran
  error,          \* exception that ended the program, "none" while it runs
  pc              \* position in the program

genVars == <<limit, outside_limit, node_idx, edges, outside_edges, ab, pivot,
             base, endpoints, depth>>
sceneVars == <<N, nodes, lines, collisions, untangled, node2lines, signal>>
vars == <<genVars, sceneVars, error, pc>>

NoEdge == <<0, 0>>
EmptyMap == [e \in {} |-> {}]

\* int(node_limit*0.75 + 0.5)
DefaultOutsideLimit(n) == (3 * n + 2) \div 4

\* the values of N given to Scene; with five nodes an edge can cross two edges
SceneSizes == {2, 3, 4}
CrowdedSizes == {2, 3, 4, 5}

\* RandomGraph2(node_limit, outside_limit) is constructed; a graph that is
\* made with the default outside_limit and a size in sizes is made for a Scene
InitFor(sizes) ==
  /\ limit \in 2..MaxNodes
  /\ outside_limit \in (0..MaxOutsideLimit) \cup {DefaultOutsideLimit(limit)}
  /\ N = IF limit \in sizes /\ outside_limit = DefaultOutsideLimit(limit) THEN limit ELSE 0
  /\ outside_edges = {<<0, 1>>, <<1, 2>>, <<0, 2>>}
  /\ node_idx = 3
  /\ edges = {}
  /\ ab = NoEdge
  /\ pivot = 0
  /\ base = 0
  /\ endpoints = NoEdge
  /\ depth = 0
  /\ nodes = EmptyMap
  /\ lines = EmptyMap
  /\ collisions = EmptyMap
  /\ untangled = {}
  /\ node2lines = EmptyMap
  /\ signal = <<>>
  /\ error = "none"
  /\ pc = "loop"

Init == InitFor(SceneSizes)

InitCrowded == InitFor(CrowdedSizes)

\* ----- RandomGraph2.__init__ ------------------------------------------------
\* while self.node_idx < node_limit: self.addLines()
EnterAddLines ==
  /\ pc = "loop"
  /\ node_idx < limit
  /\ pc' = "addLines"
  /\ depth' = 0
  /\ UNCHANGED <<sceneVars, limit, outside_limit, node_idx, edges, outside_edges, ab,
                 pivot, base, endpoints, error>>

\* loop exit: self.edges.update(self.outside_edges)
Finish ==
  /\ pc = "loop"
  /\ ~(node_idx < limit)
  /\ edges' = edges \cup outside_edges
  /\ pc' = "done"
  /\ UNCHANGED <<sceneVars, limit, outside_limit, node_idx, outside_edges, ab, pivot,
                 base, endpoints, depth, error>>

\* while len(self.outside_edges) > outside_limit: condition false
ShrinkDone ==
  /\ pc = "shrink"
  /\ ~(Cardinality(outside_edges) > outside_limit)
  /\ pc' = "loop"
  /\ UNCHANGED <<genVars, sceneVars, error>>

\* if rnd.random() < 1 / (1 + self.node_idx): break
ShrinkBreak ==
  /\ pc = "shrink"
  /\ Cardinality(outside_edges) > outside_limit
  /\ pc' = "loop"
  /\ UNCHANGED <<genVars, sceneVars, error>>

\* self.removeLines()
EnterRemoveLines ==
  /\ pc = "shrink"
  /\ Cardinality(outside_edges) > outside_limit
  /\ pc' = "removeLines"
  /\ depth' = 0
  /\ UNCHANGED <<sceneVars, limit, outside_limit, node_idx, edges, outside_edges, ab,
                 pivot, base, endpoints, error>>

\* ----- RandomGraph2.addLines ------------------------------------------------
\* cnt = sum(1 for xy in self.edges if pivot in xy)
PivotCount(p) == Cardinality({xy \in edges : p = xy[1] \/ p = xy[2]})

\* cnt * rnd.random() > 2.0 for some rnd.random() in [0, 1)
MayReject(cnt) == cnt > 2

\* the hack rejects the choice: return self.addLines()
AddLinesReject ==
  /\ pc = "addLines"
  /\ depth < MaxDepth
  /\ \E e \in outside_edges : \E p \in {e[1], e[2]} : MayReject(PivotCount(p))
  /\ depth' = depth + 1
  /\ UNCHANGED <<sceneVars, limit, outside_limit, node_idx, edges, outside_edges, ab,
                 pivot, base, endpoints, error, pc>>

\* ab, pivot and base are chosen and the hack lets them pass
AddLinesAccept ==
  /\ pc = "addLines"
  /\ \E e \in outside_edges : \E p \in {e[1], e[2]} :
       /\ ab' = e
       /\ pivot' = p
       /\ base' = e[1] + e[2] - p
  /\ pc' = "fan"
  /\ UNCHANGED <<sceneVars, limit, outside_limit, node_idx, edges, outside_edges,
                 endpoints, depth, error>>

\* faulty variant of FanEdges: the edge from base is missing
FanEdgesPivotOnly(b, p, i) == {<<p, i>>}

\* self.outside_edges.add((base,self.node_idx)); self.outside_edges.add((pivot,self.node_idx))
FanEdges(b, p, i) == {<<b, i>>, <<p, i>>}

\* faulty variant of FanBreaks: > for >=
FanBreaksLate(stop, idx) == stop \/ idx > limit

\* rnd.random() > self.denseness_parameter or self.node_idx >= self.limit
FanBreaks(stop, idx) == stop \/ idx >= limit

\* one iteration of the while True loop of addLines
FanStep ==
  /\ pc = "fan"
  /\ outside_edges' = (outside_edges \ {ab}) \cup FanEdges(base, pivot, node_idx)
  /\ edges' = edges \cup {ab}
  /\ node_idx' = node_idx + 1
  /\ \E stop \in BOOLEAN :
       IF FanBreaks(stop, node_idx')
         THEN /\ pc' = "shrink"          \* break: addLines returns
              /\ ab' = NoEdge /\ pivot' = 0 /\ base' = 0 /\ depth' = 0
         ELSE /\ pc' = "fan"
              /\ ab' = <<pivot, node_idx>> /\ base' = node_idx
              /\ UNCHANGED <<pivot, depth>>
  /\ UNCHANGED <<sceneVars, limit, outside_limit, endpoints, error>>

\* ----- RandomGraph2.removeLines ---------------------------------------------
\* ab = rnd.choice(...); outside_edges.remove(ab); edges.add(ab); endpoints = ab
RemoveLinesPick ==
  /\ pc = "removeLines"
  /\ \E e \in outside_edges :
       /\ ab' = e
       /\ outside_edges' = outside_edges \ {e}
       /\ edges' = edges \cup {e}
       /\ endpoints' = e
  /\ pc' = "walk"
  /\ UNCHANGED <<sceneVars, limit, outside_limit, node_idx, pivot, base, depth, error>>

Touches(xy, ep) == xy[1] = ep[1] \/ xy[1] = ep[2] \/ xy[2] = ep[1] \/ xy[2] = ep[2]

\* faulty variant of ScanHits: the test "xy[0] in endpoints or xy[1] in
\* endpoints" is missing, the scan stops at the first edge it meets
ScanAny == outside_edges

\* the edges at which the for loop over self.outside_edges can stop: the set is
\* scanned in an unspecified order and the scan ends at the first edge that
\* equals endpoints or shares a node with it
ScanHits == {xy \in outside_edges : xy = endpoints \/ Touches(xy, endpoints)}

\* endpoints after the scanned edge xy has been merged
Merged(xy, ep) ==
  LET s == ep[1] + ep[2]
      n == IF xy[1] = ep[1] \/ xy[1] = ep[2] THEN <<s - xy[1], xy[2]>>
                                              ELSE <<s - xy[2], xy[1]>>
  IN  <<IF n[1] < n[2] THEN n[1] ELSE n[2], IF n[1] < n[2] THEN n[2] ELSE n[1]>>

\* faulty variant of Taken: self.edges.add(xy) is missing
TakenLost(es, xy) == es

\* self.outside_edges.remove(xy); self.edges.add(xy): the permanent edges after
\* the scanned edge xy has been taken from the boundary
Taken(es, xy) == es \cup {xy}

\* the scan meets endpoints itself: return self.removeLines()
WalkRetry ==
  /\ pc = "walk"
  /\ endpoints \in ScanHits
  /\ pc' = "removeLines"
  /\ depth' = IF depth < MaxDepth THEN depth + 1 ELSE depth
  /\ ab' = NoEdge
  /\ endpoints' = NoEdge
  /\ UNCHANGED <<sceneVars, limit, outside_limit, node_idx, edges, outside_edges,
                 pivot, base, error>>

\* the scan ends without a hit: assert(other is not None) fails
WalkAssertFail ==
  /\ pc = "walk"
  /\ ScanHits = {}
  /\ error' = "AssertionError"
  /\ pc' = "failed"
  /\ UNCHANGED <<genVars, sceneVars>>

\* the scan stops at xy: xy becomes permanent and endpoints widens
WalkMove ==
  /\ pc = "walk"
  /\ \E xy \in ScanHits \ {endpoints} : \E stop \in BOOLEAN :
       /\ edges' = Taken(edges, xy)
       /\ IF stop
            THEN /\ outside_edges' = (outside_edges \ {xy}) \cup {Merged(xy, endpoints)}
                 /\ pc' = "shrink"       \* break: removeLines returns
                 /\ ab' = NoEdge /\ endpoints' = NoEdge /\ depth' = 0
            ELSE /\ outside_edges' = outside_edges \ {xy}
                 /\ pc' = "walk"
                 /\ endpoints' = Merged(xy, endpoints)
                 /\ UNCHANGED <<ab, depth>>
  /\ UNCHANGED <<sceneVars, limit, outside_limit, node_idx, pivot, base, error>>

NextGen ==
  \/ EnterAddLines \/ Finish \/ ShrinkDone \/ ShrinkBreak \/ EnterRemoveLines
  \/ AddLinesReject \/ AddLinesAccept \/ FanStep
  \/ RemoveLinesPick \/ WalkRetry \/ WalkAssertFail \/ WalkMove

\* ----- geometry -------------------------------------------------------------
\* sign of the turn a -> b -> c
Orient(a, b, c) ==
  LET d == (b[1] - a[1]) * (c[2] - a[2]) - (b[2] - a[2]) * (c[1] - a[1])
  IN  IF d > 0 THEN 1 ELSE IF d < 0 THEN -1 ELSE 0

\* c lies in the bounding box of a and b
InBox(a, b, c) ==
  /\ (IF a[1] < b[1] THEN a[1] ELSE b[1]) <= c[1]
  /\ c[1] <= (IF a[1] < b[1] THEN b[1] ELSE a[1])
  /\ (IF a[2] < b[2] THEN a[2] ELSE b[2]) <= c[2]
  /\ c[2] <= (IF a[2] < b[2] THEN b[2] ELSE a[2])

\* Qt.IntersectsItemShape for two line items: the drawn segments s and t have
\* a point in common (touching and overlapping count)
Collide(s, t) ==
  LET o1 == Orient(s[1], s[2], t[1])
      o2 == Orient(s[1], s[2], t[2])
      o3 == Orient(t[1], t[2], s[1])
      o4 == Orient(t[1], t[2], s[2])
  IN  \/ o1 * o2 < 0 /\ o3 * o4 < 0
      \/ o1 = 0 /\ InBox(s[1], s[2], t[1])
      \/ o2 = 0 /\ InBox(s[1], s[2], t[2])
      \/ o3 = 0 /\ InBox(t[1], t[2], s[1])
      \/ o4 = 0 /\ InBox(t[1], t[2], s[2])

\* lines[ab].collidingItems(Qt.IntersectsItemShape), line items only: the
\* other lines of the scene whose shape meets the shape of line e
CollidingItems(ls, e) == {l \in DOMAIN ls \ {e} : Collide(ls[l], ls[e])}

\* faulty variant of Connected: connected lines are not skipped
ConnectedNever(l, e) == FALSE

\* len(set(l.ab + ab)) < 4
Connected(l, e) == Cardinality({l[1], l[2], e[1], e[2]}) < 4

\* ----- Scene.init -----------------------------------------------------------
Babe == 47806          \* 0xbabe
MaxPoint == 3          \* a node is dragged to one of the points PointAt(0..MaxPoint)
MaxMoved == 1          \* at most MaxMoved nodes are away from their initial places

\* the lattice points of a strip of height 2, column by column
PointAt(k) == <<k \div 2, k % 2>>
Points == {PointAt(k) : k \in 0..MaxPoint}

RECURSIVE Gcd(_, _)
Gcd(a, b) == IF b = 0 THEN a ELSE Gcd(b, a % b)

\* int(math.sqrt(n))
Isqrt(n) == CHOOSE k \in 0..n : k * k <= n /\ (k + 1) * (k + 1) > n

\* a = int(math.sqrt(n)); while math.gcd(a, n) > 1: a += 1
RECURSIVE Coprime(_, _)
Coprime(a, n) == IF Gcd(a, n) > 1 THEN Coprime(a + 1, n) ELSE a

\* ri = (a*i + 0xbabe) % n
Slot(i, n) == (Coprime(Isqrt(n), n) * i + Babe) % n

\* Node i is placed at slot ri of n points spread evenly over a circle.  The
\* model places slot r on the lattice point <<r, r(r-1)/2>> of a parabola:
\* both layouts are in convex position in the same cyclic order, which is all
\* that decides which chords cross.
SlotPoint(r) == <<r, (r * (r - 1)) \div 2>>

\* the places given to the n nodes by the loop "for i in range(n)"
Layout(n) == [i \in 0..(n - 1) |-> SlotPoint(Slot(i, n))]

\* the nodes that are not where init placed them
Displaced(pos) ==
  LET home == Layout(Cardinality(DOMAIN pos))
  IN  {v \in DOMAIN pos : pos[v] # home[v]}

\* self.clear(); g = ...(n); the nodes are created and placed;
\* edges, node2lines = g.getEdges(); lines = dict(); collisions = dict()
SceneStart ==
  /\ pc = "done"
  /\ N # 0
  /\ nodes' = Layout(N)
  /\ node2lines' = [v \in 0..(node_idx - 1) |-> {e \in edges : v = e[1] \/ v = e[2]}]
  /\ lines' = EmptyMap
  /\ collisions' = EmptyMap
  /\ pc' = "init"
  \* g is not used after getEdges: of the generator only the edge set lives on
  /\ limit' = 0 /\ outside_limit' = 0 /\ node_idx' = 0 /\ outside_edges' = {}
  /\ UNCHANGED <<edges, ab, pivot, base, endpoints, depth, N, untangled, signal, error>>

\* the map c with key k bound to v
Put(c, k, v) == [x \in DOMAIN c \cup {k} |-> IF x = k THEN v ELSE c[x]]

\* the map c without key k
Del(c, k) == [x \in DOMAIN c \ {k} |-> c[x]]

\* self.collisions.get(e, ())
Get(c, e) == IF e \in DOMAIN c THEN c[e] ELSE {}

\* faulty variant of Record: the second setdefault(...).add(...) is missing
RecordOneSided(c, e, found) ==
  [x \in DOMAIN c \cup (IF found = {} THEN {} ELSE {e}) |->
     IF x = e THEN Get(c, x) \cup found ELSE c[x]]

\* for every l in found: collisions.setdefault(ab, set()).add(l.ab)
\*                       collisions.setdefault(l.ab, set()).add(ab)
Record(c, e, found) ==
  [x \in DOMAIN c \cup (IF found = {} THEN {} ELSE found \cup {e}) |->
     IF x = e THEN Get(c, x) \cup found
     ELSE IF x \in found THEN Get(c, x) \cup {e}
     ELSE c[x]]

\* the body of "for ab in edges" for the edge e: the line of e is added to the
\* lines ls and tested against them; st = [lines, coll], pos = node positions
AddLine(st, e, pos) ==
  LET ls == Put(st.lines, e, <<pos[e[1]], pos[e[2]]>>)
  IN  [lines |-> ls,
       coll  |-> Record(st.coll, e, {l \in CollidingItems(ls, e) : ~Connected(l, e)})]

\* the whole "for ab in edges" loop over the edge set todo, from the state st
RECURSIVE AddLines(_, _, _)
AddLines(st, todo, pos) ==
  IF todo = {} THEN st
  ELSE LET e == CHOOSE x \in todo : TRUE
       IN  AddLines(AddLine(st, e, pos), todo \ {e}, pos)

\* one iteration of "for ab in edges", the set being taken in any order
SceneAddLine ==
  /\ pc = "init"
  /\ \E e \in edges \ DOMAIN lines :
       IF e[1] \in DOMAIN nodes /\ e[2] \in DOMAIN nodes
         THEN \E r \in {AddLine([lines |-> lines, coll |-> collisions], e, nodes)} :
                /\ lines' = r.lines
                /\ collisions' = r.coll
                /\ UNCHANGED <<error, pc>>
         ELSE /\ error' = "IndexError"     \* self.nodes[b] of a node never created
              /\ pc' = "failed"
              /\ UNCHANGED <<lines, collisions>>
  /\ UNCHANGED <<genVars, N, nodes, untangled, node2lines, signal>>

\* self.untangled = set(edges - collisions.keys()); the nodes are added
SceneFinish ==
  /\ pc = "init"
  /\ DOMAIN lines = edges
  /\ untangled' = edges \ DOMAIN collisions
  /\ pc' = "play"
  /\ UNCHANGED <<genVars, N, nodes, lines, collisions, node2lines, signal, error>>

\* ----- Scene.updateNode -----------------------------------------------------
\* faulty variant of DropStale: the key of xy is deleted without the test
\* "len(self.collisions[xy]) == 0"
DropStaleAll(c, u, e, coll) ==
  LET gone  == Get(c, e) \ coll
      bad   == {xy \in gone : xy = e \/ xy \notin DOMAIN c \/ e \notin Get(c, xy)}
      good  == gone \ bad
  IN  [coll |-> [k \in DOMAIN c \ good |-> c[k]],
       unt  |-> u \cup good,
       ok   |-> bad = {}]

\* faulty variant of DropStale: "del self.collisions[xy]" is missing, the
\* emptied set stays in the map
DropStaleEmptyKey(c, u, e, coll) ==
  LET gone  == Get(c, e) \ coll
      bad   == {xy \in gone : xy = e \/ xy \notin DOMAIN c \/ e \notin Get(c, xy)}
      good  == gone \ bad
      freed == {xy \in good : c[xy] \ {e} = {}}
  IN  [coll |-> [k \in DOMAIN c |-> IF k \in good THEN c[k] \ {e} ELSE c[k]],
       unt  |-> u \cup freed,
       ok   |-> bad = {}]

\* faulty variant of DropStale: the previous collisions are not checked
DropStaleKeep(c, u, e, coll) == [coll |-> c, unt |-> u, ok |-> TRUE]

\* "Check previous collisions": every xy of the old collisions[e] that is not
\* in coll loses e, and is untangled when nothing is left.  ok is FALSE when
\* a lookup or a remove raises.
DropStale(c, u, e, coll) ==
  LET gone  == Get(c, e) \ coll
      bad   == {xy \in gone : xy = e \/ xy \notin DOMAIN c \/ e \notin Get(c, xy)}
      good  == gone \ bad
      freed == {xy \in good : c[xy] \ {e} = {}}
  IN  [coll |-> [k \in DOMAIN c \ freed |-> IF k \in good THEN c[k] \ {e} ELSE c[k]],
       unt  |-> u \cup freed,
       ok   |-> bad = {}]

\* faulty variant of Retangle: ab is not taken out of untangled
RetangleKeepUntangled(c, u, e, coll) ==
  IF coll # {}
    THEN LET c1  == Put(c, e, coll)
             new == coll \ DOMAIN c1
         IN  [coll |-> [k \in DOMAIN c1 \cup coll |->
                          IF k \in coll THEN Get(c1, k) \cup {e} ELSE c1[k]],
              unt  |-> u \ new,
              ok   |-> new \subseteq u]
    ELSE IF e \in DOMAIN c
      THEN [coll |-> Del(c, e), unt |-> u \cup {e}, ok |-> TRUE]
      ELSE [coll |-> c, unt |-> u, ok |-> TRUE]

\* faulty variant of Retangle: self.collisions[xy].add(ab) is missing
RetangleNoBackRef(c, u, e, coll) ==
  IF coll # {}
    THEN LET c1  == Put(c, e, coll)
             new == coll \ DOMAIN c1
         IN  [coll |-> [k \in DOMAIN c1 \cup coll |-> Get(c1, k)],
              unt  |-> (u \ {e}) \ new,
              ok   |-> new \subseteq u]
    ELSE IF e \in DOMAIN c
      THEN [coll |-> Del(c, e), unt |-> u \cup {e}, ok |-> TRUE]
      ELSE [coll |-> c, unt |-> u, ok |-> TRUE]

\* "if len(coll) > 0: ... elif ab in self.collisions: ..."
Retangle(c, u, e, coll) ==
  IF coll # {}
    THEN LET c1  == Put(c, e, coll)
             new == coll \ DOMAIN c1
         IN  [coll |-> [k \in DOMAIN c1 \cup coll |->
                          IF k \in coll THEN Get(c1, k) \cup {e} ELSE c1[k]],
              unt  |-> (u \ {e}) \ new,
              ok   |-> new \subseteq u]
    ELSE IF e \in DOMAIN c
      THEN [coll |-> Del(c, e), unt |-> u \cup {e}, ok |-> TRUE]
      ELSE [coll |-> c, unt |-> u, ok |-> TRUE]

\* the body of "for ab in self.node2lines[node.idx]" for the edge e;
\* st = [lines, coll, unt, ok], pos = the positions of the nodes
UpdateEdge(st, e, pos) ==
  IF ~st.ok THEN st
  ELSE LET ls   == [st.lines EXCEPT ![e] = <<pos[e[1]], pos[e[2]]>>]
           coll == {l \in CollidingItems(ls, e) : ~Connected(l, e)}
           d    == DropStale(st.coll, st.unt, e, coll)
           r    == Retangle(d.coll, d.unt, e, coll)
       IN  IF d.ok THEN [lines |-> ls, coll |-> r.coll, unt |-> r.unt, ok |-> r.ok]
                   ELSE [lines |-> ls, coll |-> d.coll, unt |-> d.unt, ok |-> FALSE]

\* the for loop over the edges of the node.  The edges are held in a set, so
\* the loop can visit them in any order: front holds the pairs <<todo, st>> of
\* the edges still to visit and the state reached, over all orders, and the
\* result is the set of the states in which the loop can end
RECURSIVE UpdateEdges(_, _)
UpdateEdges(front, pos) ==
  IF \A f \in front : f[1] = {} THEN {f[2] : f \in front}
  ELSE UpdateEdges(UNION {{<<f[1] \ {e}, UpdateEdge(f[2], e, pos)>> : e \in f[1]} :
                            f \in front}, pos)

\* faulty variant of Progress: the total is the number of tangled edges
ProgressTangled(u, ls) == <<"progress", Cardinality(u), Cardinality(DOMAIN ls \ u)>>

\* self.progress.emit(len(self.untangled), len(self.lines))
Progress(u, ls) == <<"progress", Cardinality(u), Cardinality(DOMAIN ls)>>

\* updateNode(node) for the node v, the nodes being at pos
UpdateNode(v, pos) ==
    \E r \in UpdateEdges({<<node2lines[v], [lines |-> lines, coll |-> collisions,
                                              unt |-> untangled, ok |-> TRUE]>>}, pos) :
        /\ nodes' = pos
        /\ lines' = r.lines
        /\ collisions' = r.coll
        /\ untangled' = r.unt
        /\ IF r.ok
             THEN /\ signal' = Progress(r.unt, r.lines)
                  /\ UNCHANGED <<error, pc>>
             ELSE /\ error' = "KeyError"
                  /\ pc' = "failed"
                  /\ UNCHANGED signal
        /\ UNCHANGED <<genVars, N, node2lines>>

\* Node.mousePressEvent: self.scene().updateNode(self)
MousePress ==
  /\ pc = "play"
  /\ \E v \in DOMAIN nodes : UpdateNode(v, nodes)

\* Node.mouseMoveEvent: self.setPos(evt.scenePos()); self.scene().updateNode(self)
MouseMove ==
  /\ pc = "play"
  /\ \E v \in DOMAIN nodes : \E p \in Points :
       /\ Cardinality(Displaced([nodes EXCEPT ![v] = p])) <= MaxMoved
       /\ UpdateNode(v, [nodes EXCEPT ![v] = p])

\* ----- Scene.checkVictory ---------------------------------------------------
\* faulty variant of VictorySignals: the early return is missing
VictorySignalsAlways(c) == <<"refit", "victory">>

\* self.refit.emit(); if len(self.collisions) != 0: return; self.victory.emit()
VictorySignals(c) == IF Cardinality(DOMAIN c) # 0 THEN <<"refit">> ELSE <<"refit", "victory">>

\* Node.mouseReleaseEvent: self.scene().checkVictory()
MouseRelease ==
  /\ pc = "play"
  /\ signal' = VictorySignals(collisions)
  /\ UNCHANGED <<genVars, N, nodes, lines, collisions, untangled, node2lines, error, pc>>

NextScene ==
  \/ SceneStart \/ SceneAddLine \/ SceneFinish
  \/ MousePress \/ MouseMove \/ MouseRelease

Next == NextGen \/ NextScene

Spec == Init /\ [][Next]_vars

SpecCrowded == InitCrowded /\ [][Next]_vars

\* ----- the random outcomes, resolved fairly ----------------------------------
\* "rnd.random() > self.denseness_parameter" holds: the fan ends
FanStop == FanStep /\ pc' = "shrink"

\* "rnd.random() > self.sparseness_parameter" holds: the walk ends
WalkStop == WalkMove /\ pc' = "shrink"

\* The constructor keeps running, and an outcome of rnd.random() that has a fixed
\* positive probability and is possible again and again is eventually drawn.
Fairness ==
  /\ WF_vars(NextGen)
  /\ SF_vars(AddLinesAccept)
  /\ SF_vars(FanStop)
  /\ SF_vars(WalkStop)
  /\ SF_vars(ShrinkBreak)

SpecFair == Init /\ [][Next]_vars /\ Fairness

\* ----- updateNode called with a node that is not one of the scene ----------
\* the element that the list index i selects in a Python list of length len:
\* a negative index counts from the end; -1 stands for IndexError
ListIndex(len, i) ==
  IF 0 <= i /\ i < len THEN i
  ELSE IF -len <= i /\ i < 0 THEN len + i
  ELSE -1

\* Scene.updateNode(node) for a Node whose idx is -1 or len(self.node2lines):
\* no handler of the scene's own nodes makes this call, a caller of the method
\* can.  self.node2lines[node.idx] is evaluated before anything is changed.
UpdateForeign ==
  /\ pc = "play"
  /\ \E i \in {-1, Cardinality(DOMAIN node2lines)} :
       \E k \in {ListIndex(Cardinality(DOMAIN node2lines), i)} :
         IF k >= 0 /\ k \in DOMAIN nodes
           THEN UpdateNode(k, nodes)
           ELSE /\ error' = "IndexError"
                /\ pc' = "failed"
                /\ UNCHANGED <<genVars, sceneVars>>

NextApi == Next \/ UpdateForeign

SpecApi == Init /\ [][NextApi]_vars

\* ----- properties -----------------------------------------------------------
\* two edges with a node in common (or the same edge)
SharesNode(e, f) == {e[1], e[2]} \cap {f[1], f[2]} # {}

\* the segments of e and f meet when the nodes are at pos
Crosses(e, f, pos) ==
  /\ ~SharesNode(e, f)
  /\ Collide(<<pos[e[1]], pos[e[2]]>>, <<pos[f[1]], pos[f[2]]>>)

\* the collision map by definition: every edge that crosses something, mapped
\* to all the edges it crosses
BruteMap(E, pos) ==
  [e \in {x \in E : \E f \in E : Crosses(x, f, pos)} |-> {f \in E : Crosses(e, f, pos)}]

\* the nodes reachable from the nodes S along the edges E
RECURSIVE Reach(_, _)
Reach(S, E) ==
  LET T == S \cup {e[2] : e \in {x \in E : x[1] \in S}}
             \cup {e[1] : e \in {x \in E : x[2] \in S}}
  IN  IF T = S THEN S ELSE Reach(T, E)

\* the number of distinct unordered pairs of E that contain v
Degree(v, E) == Cardinality({{e[1], e[2]} : e \in {x \in E : v = x[1] \/ v = x[2]}})

\* an updateNode call has run and some node is away from its initial place
Moved ==
  /\ pc = "play"
  /\ signal # <<>>
  /\ signal[1] = "progress"
  /\ Displaced(nodes) # {}

\* C1: after init and any number of updateNode calls the collision map that
\* was maintained incrementally is the map that the loop of init computes from
\* scratch for the same edges and the present node positions.
C1_IncrementalIsFromScratch ==
  pc = "play" =>
    collisions = AddLines([lines |-> EmptyMap, coll |-> EmptyMap], edges, nodes).coll

\* a node has been dragged so that an edge that crossed two edges initially
\* lost its crossing with an edge of that node and is still crossed by another
\* edge, and some edge crosses an edge that it did not cross initially
C1_Witness ==
  /\ Moved
  /\ \E v \in Displaced(nodes) : \E xy \in DOMAIN collisions : \E e \in node2lines[v] :
       /\ xy \notin node2lines[v]
       /\ Crosses(xy, e, Layout(Cardinality(DOMAIN nodes)))
       /\ e \notin collisions[xy]
       /\ collisions[xy] # {}
  /\ \E g \in DOMAIN collisions : \E f \in collisions[g] :
       ~Crosses(g, f, Layout(Cardinality(DOMAIN nodes)))

\* C2: after init and after every updateNode call every edge is in exactly one
\* of untangled and the keys of the collision map.
C2_Partition ==
  pc = "play" =>
    /\ untangled \cap DOMAIN collisions = {}
    /\ untangled \cup DOMAIN collisions = edges

\* after an update some edges are untangled and some edge is crossed by two
\* edges
C2_Witness ==
  /\ Moved
  /\ untangled # {}
  /\ \E e \in DOMAIN collisions : Cardinality(collisions[e]) >= 2

\* C3: after init and any number of updateNode calls, e2 is in collisions[e1]
\* exactly when e1 is in collisions[e2].
C3_Symmetry ==
  pc = "play" =>
    \A e1 \in edges : \A e2 \in edges :
      e2 \in Get(collisions, e1) <=> e1 \in Get(collisions, e2)

\* after an update an edge is recorded against two edges, one of which it did
\* not cross initially, and both are recorded against it
C3_Witness ==
  /\ Moved
  /\ \E e1 \in DOMAIN collisions :
       /\ Cardinality(collisions[e1]) >= 2
       /\ \E e2 \in collisions[e1] : ~Crosses(e1, e2, Layout(Cardinality(DOMAIN nodes)))
       /\ \A e2 \in collisions[e1] : e1 \in Get(collisions, e2)

\* C4: no edge is ever recorded in the collision set of itself or of an edge
\* it shares a node with, although the drawn segments of such edges do meet.
C4_NoAdjacentCrossing ==
  pc \in {"init", "play"} =>
    \A e \in DOMAIN collisions : \A f \in collisions[e] : ~SharesNode(e, f)

\* after an update the segment of a tangled edge meets that of an edge it
\* shares a node with
C4_Witness ==
  /\ Moved
  /\ \E e \in DOMAIN collisions : \E f \in edges \ {e} :
       SharesNode(e, f) /\ Collide(lines[e], lines[f])

\* C5: init leaves the collision map that holds the pair (e1, e2) exactly when
\* e1 and e2 share no node and their segments meet, and untangled is exactly
\* the set of the edges that are not keys of it.
C5_InitIsBruteForce ==
  (pc = "play" /\ signal = <<>>) =>
    /\ collisions = BruteMap(edges, nodes)
    /\ untangled = edges \ DOMAIN collisions

\* init has finished with crossing-free edges and an edge that crosses two
\* edges
C5_Witness ==
  /\ pc = "play"
  /\ signal = <<>>
  /\ \E e \in DOMAIN collisions : Cardinality(collisions[e]) >= 2
  /\ untangled # {}

\* C6: checkVictory emits victory exactly when the collision map is empty at
\* the call, and changes neither the map, untangled, the positions nor the lines.
C6_CheckVictory ==
  [][(pc = "play" /\ signal' # <<>> /\ signal'[1] = "refit") =>
       /\ ("victory" \in {signal'[i] : i \in DOMAIN signal'}) <=> (DOMAIN collisions = {})
       /\ UNCHANGED <<collisions, untangled, nodes, lines>>]_vars

\* checkVictory has emitted victory for a graph of four nodes
C6_Witness ==
  /\ pc = "play"
  /\ signal = <<"refit", "victory">>
  /\ Cardinality(DOMAIN nodes) = 4

\* C7: every updateNode call reports the size of untangled and a total that is
\* the number of edges and also |untangled| + |keys of collisions|; the total
\* is the same in every call.
C7_ProgressCounts ==
  /\ [](pc = "play" /\ signal # <<>> /\ signal[1] = "progress" =>
          /\ signal[2] = Cardinality(untangled)
          /\ signal[3] = Cardinality(edges)
          /\ signal[3] = Cardinality(untangled) + Cardinality(DOMAIN collisions))
  /\ [][(signal # <<>> /\ signal[1] = "progress" /\ signal'[1] = "progress") =>
          signal'[3] = signal[3]]_vars

\* an update has reported some but not all edges untangled
C7_Witness ==
  /\ Moved
  /\ 0 < signal[2]
  /\ signal[2] < signal[3]

\* C8: for node_limit >= 3, when the constructor returns the node count is
\* exactly node_limit.
C8_NodeCount == (pc = "done" /\ limit >= 3) => node_idx = limit

\* the constructor has returned a graph that was grown
C8_Witness == pc = "done" /\ limit > 3 /\ node_idx = limit

\* C9: for node_limit >= 3, after every addLines call, after every completed
\* removeLines call and at the return of the constructor the permanent edges
\* together with the outside edges connect the nodes 0..node_idx-1.
C9_Connected ==
  (pc \in {"loop", "shrink", "done"} /\ limit >= 3) =>
    Reach({0}, edges \cup outside_edges) = 0..(node_idx - 1)

\* the constructor has returned a graph in which removeLines closed a face
C9_Witness ==
  /\ pc = "done"
  /\ limit > 3
  /\ Cardinality(edges) > 2 * node_idx - 3

\* C10: for node_limit >= 3, every node of the returned graph is in at least
\* two edges, each unordered pair of nodes counted once.
C10_MinDegree ==
  (pc = "done" /\ limit >= 3) => \A v \in 0..(node_idx - 1) : Degree(v, edges) >= 2

\* the constructor has returned a graph of four nodes for which removeLines
\* put an edge on the boundary that was a permanent edge already
C10_Witness ==
  /\ pc = "done"
  /\ limit = 4
  /\ Cardinality(edges) = 5
  /\ Cardinality(outside_edges) = 3
  /\ \E v \in 0..(node_idx - 1) : Degree(v, edges) = 2

\* C11: when the scan of removeLines meets an edge equal to endpoints the call
\* is retried and the retry completes: for node_limit >= 3 no error is raised
\* in a retried call (depth counts the nested calls since removeLines was
\* entered, and an error keeps it).
C11_RetryRecovers == (limit >= 3 /\ depth > 0) => error = "none"

\* C12: a constructor call with node_limit < 3 fails before any state is built
\* and never returns a graph: the constructor returns only for node_limit >= 3.
C12_SmallLimitRejected == pc = "done" => limit >= 3

\* C13: an updateNode call for a node index outside 0..N-1 (negative indices
\* included) fails with UnknownVertex and leaves the positions, the collision
\* map and the untangled set as they were.
C13_UnknownVertexRejected ==
  [][UpdateForeign =>
       /\ error' = "UnknownVertex"
       /\ UNCHANGED <<nodes, collisions, untangled>>]_vars

\* a and b are joined by an edge of E
Adjacent(E, a, b) == <<a, b>> \in E \/ <<b, a>> \in E

\* the subsets of V with k elements
Choose(V, k) == {S \in SUBSET V : Cardinality(S) = k}

\* five nodes of V that are joined pairwise by the edges E
HasK5(V, E) ==
  \E S \in Choose(V, 5) : \A a \in S : \A b \in S \ {a} : Adjacent(E, a, b)

\* five nodes of V that are joined pairwise, one pair of them by a path
\* through a sixth node
HasSubdividedK5(V, E) ==
  \E S \in Choose(V, 5) : \E w \in V \ S : \E a \in S : \E b \in S \ {a} :
    /\ Adjacent(E, a, w)
    /\ Adjacent(E, w, b)
    /\ \A c \in S : \A d \in S \ {c} : {c, d} = {a, b} \/ Adjacent(E, c, d)

\* two disjoint triples of nodes of V with every node of one joined to every
\* node of the other
HasK33(V, E) ==
  \E A \in Choose(V, 3) : \E B \in Choose(V \ A, 3) :
    \A a \in A : \A b \in B : Adjacent(E, a, b)

\* Kuratowski: a graph is planar exactly when no subgraph is a subdivision of
\* K5 or K3,3.  On at most six nodes these subdivisions are K5, K5 with one
\* edge subdivided, and K3,3.
Planar(V, E) == ~HasK5(V, E) /\ ~HasSubdividedK5(V, E) /\ ~HasK33(V, E)

\* C14: for node_limit >= 3 the graph is planar after every addLines call,
\* after every completed removeLines call and when the constructor returns.
C14_Planar ==
  (pc \in {"loop", "shrink", "done"} /\ limit >= 3) =>
    Planar(0..(node_idx - 1), edges \cup outside_edges)

\* the constructor has returned a graph of five nodes with 3*5 - 6 edges, the
\* most a planar graph can have; one more edge would make it K5
C14_Witness ==
  /\ pc = "done"
  /\ limit = 5
  /\ node_idx = 5
  /\ Cardinality(edges) = 9

\* C15: for node_limit >= 3, with the random outcomes resolved fairly, the
\* constructor eventually returns: it neither runs forever nor stops with an
\* error.
C15_Returns == limit >= 3 => <>(pc = "done")

\* the edge e has the node v as an end
Incident(e, v) == e[1] = v \/ e[2] = v

\* C16: an updateNode call for a node v leaves the position of every other
\* node, node2lines and the edge set as they were, and for two edges that do
\* not have v as an end, whether one is in the other's collision set is the
\* same before and after the call.
C16_UpdateFrame ==
  [][(pc = "play" /\ (pc' = "failed" \/ (signal' # <<>> /\ signal'[1] = "progress"))) =>
       \E v \in DOMAIN nodes :
         /\ DOMAIN nodes' = DOMAIN nodes
         /\ \A w \in DOMAIN nodes \ {v} : nodes'[w] = nodes[w]
         /\ node2lines' = node2lines
         /\ DOMAIN lines' = DOMAIN lines
         /\ edges' = edges
         /\ \A e \in DOMAIN lines : \A f \in DOMAIN lines :
              (~Incident(e, v) /\ ~Incident(f, v)) =>
                (f \in Get(collisions', e) <=> f \in Get(collisions, e))]_vars

\* a node was moved and updateNode changed the crossings of one of its edges,
\* while two edges away from the node cross each other
C16_Witness ==
  /\ Moved
  /\ \E v \in Displaced(nodes) :
       /\ \E e \in DOMAIN collisions : \E f \in collisions[e] :
            ~Incident(e, v) /\ ~Incident(f, v)
       /\ \E g \in node2lines[v] : \E h \in DOMAIN lines :
            Crosses(g, h, Layout(Cardinality(DOMAIN nodes))) # (h \in Get(collisions, g))

\* C17: after init and any number of updateNode calls every key of the
\* collision map has a non-empty set, and an edge is a key exactly when it
\* crosses some other edge at the current positions.
C17_KeysCross ==
  pc = "play" =>
    /\ \A e \in DOMAIN collisions : collisions[e] # {}
    /\ \A e \in DOMAIN lines :
         e \in DOMAIN collisions <=> \E f \in DOMAIN lines : Crosses(e, f, nodes)

\* a node was moved; one edge that crossed nothing at the start is a key, and
\* one edge that crossed something at the start is not
C17_Witness ==
  /\ Moved
  /\ \E e \in DOMAIN collisions :
       \A f \in DOMAIN lines : ~Crosses(e, f, Layout(Cardinality(DOMAIN nodes)))
  /\ \E e \in DOMAIN lines \ DOMAIN collisions :
       \E f \in DOMAIN lines : Crosses(e, f, Layout(Cardinality(DOMAIN nodes)))

\* C18: a removeLines call that completes leaves node_idx as it was, takes no
\* edge out of the graph (each boundary edge it takes becomes permanent), takes
\* at least two boundary edges and adds one new boundary edge, so that the
\* boundary never grows while it runs and shrinks with every edge it takes.
C18_ContractStep ==
  [][/\ pc \in {"removeLines", "walk"} =>
          /\ node_idx' = node_idx
          /\ edges \subseteq edges'
          /\ outside_edges \ outside_edges' \subseteq edges'
          /\ pc' = "walk" => Cardinality(outside_edges') < Cardinality(outside_edges)
     /\ (pc = "walk" /\ pc' = "shrink") =>
          /\ ab \in edges'
          /\ \E xy \in outside_edges \ {ab} : xy \in edges' /\ xy \notin outside_edges'
          /\ Cardinality(outside_edges' \ outside_edges) = 1
          /\ Cardinality(outside_edges') <= Cardinality(outside_edges)]_vars

\* C19: the sanity assertion of removeLines never fails: whenever the walk
\* looks for the next boundary edge there is one that touches endpoints.
C19_AssertHolds == limit >= 3 => error # "AssertionError"

\* the nodes that occur in the edges E
Ends(E) == {e[1] : e \in E} \cup {e[2] : e \in E}

\* E is one simple cycle of at least three edges
SimpleCycle(E) ==
  /\ Cardinality(E) >= 3
  /\ \A v \in Ends(E) : Cardinality({e \in E : Incident(e, v)}) = 2
  /\ \A v \in Ends(E) : Reach({v}, E) = Ends(E)

\* C20: after the initial triangle, after every addLines call and after every
\* completed removeLines call the boundary is one simple cycle of at least
\* three edges, and no boundary edge is a permanent edge.
C20_BoundaryCycle ==
  pc \in {"loop", "shrink"} =>
    /\ SimpleCycle(outside_edges)
    /\ outside_edges \cap edges = {}
====
